---- MODULE Spec2Model ----
(***************************************************************************)
(* Model of the message chunking and sequential delivery of               *)
(* serverless-telegram-notifier (src/src/telegram.ts).                     *)
(*                                                                         *)
(* Strings.  A JavaScript string is modelled by its run-length encoding    *)
(* over the two character classes that the code distinguishes: whitespace  *)
(* (what /\s+/ matches and what String.prototype.trim removes: the same    *)
(* character set) and everything else.  A string is a sequence of runs     *)
(*     [ws |-> BOOLEAN, at |-> Nat, len |-> Nat \ {0}]                      *)
(* where `at` is the index, in the message the delivery was called with,   *)
(* of the first character of the run, so that every character keeps its    *)
(* identity and every length is exact.  The empty string is << >>.         *)
(***************************************************************************)
EXTENDS Integers, Sequences, FiniteSets, TLC

\* ---------------------------------------------------------------- constants

TELEGRAM_MESSAGE_MAX_LENGTH == 4096
MESSAGE_SAFETY_BUFFER == 200
RATE_LIMIT_DELAY_MS == 1000

\* ------------------------------------------------------------------- bounds

\* Deliveries: the longest message, in runs of one character class.
MaxRuns == 3
\* Chunker on its own: runs per text, characters per run, and the largest
\* maxChunkSize tried.
MaxTextRuns == 5
MaxRunLen == 3
MaxChunkSize == 3

\* The longest message of two concurrent deliveries, in chunks.
MaxPairChunks == 3

\* ------------------------------------------------------------------ strings

RECURSIVE StrLen(_)
\* s.length
StrLen(s) == IF s = << >> THEN 0 ELSE Head(s).len + StrLen(Tail(s))

RECURSIVE TrimStart(_)
TrimStart(s) ==
    IF s = << >> THEN s
    ELSE IF Head(s).ws THEN TrimStart(Tail(s)) ELSE s

RECURSIVE TrimEnd(_)
TrimEnd(s) ==
    IF s = << >> THEN s
    ELSE IF s[Len(s)].ws THEN TrimEnd(SubSeq(s, 1, Len(s) - 1)) ELSE s

\* s.trim()
Trim(s) == TrimEnd(TrimStart(s))

\* s.trim() is the empty string, i.e. s is empty or whitespace only.
IsBlank(s) == \A i \in 1..Len(s) : s[i].ws

\* word.slice(from, to) of a one-run string; to is clamped to the length.
Slice(word, from, to) ==
    LET r == word[1]
        end == IF to < r.len THEN to ELSE r.len
    IN  IF from >= end THEN << >>
        ELSE << [ws |-> r.ws, at |-> r.at + from, len |-> end - from] >>

\* message.split(/(\s+)/): the maximal whitespace runs and the pieces between
\* them, alternating, beginning and ending with a (possibly empty) piece.
SplitOnWhitespace(message) ==
    LET lead == IF message = << >> \/ Head(message).ws THEN << << >> >> ELSE << >>
        trail == IF message # << >> /\ message[Len(message)].ws
                 THEN << << >> >> ELSE << >>
    IN  lead \o [i \in 1..Len(message) |-> << message[i] >>] \o trail

\* ------------------------------------------------------------------ chunker

\* telegram.ts:91, the test that adding the word would exceed the limit.
ExceedsLimit_OffByOne(currentChunk, word, maxChunkSize) ==
    StrLen(currentChunk) + StrLen(word) > maxChunkSize + 1

ExceedsLimit(currentChunk, word, maxChunkSize) ==
    StrLen(currentChunk) + StrLen(word) > maxChunkSize

RECURSIVE HardSplit_SkipsRemainder(_, _, _)
\* telegram.ts:100, with the loop test i + maxChunkSize <= word.length
HardSplit_SkipsRemainder(word, from, maxChunkSize) ==
    IF from + maxChunkSize > StrLen(word) THEN << >>
    ELSE << Slice(word, from, from + maxChunkSize) >>
         \o HardSplit_SkipsRemainder(word, from + maxChunkSize, maxChunkSize)

RECURSIVE HardSplit(_, _, _)
\* telegram.ts:100-102, for (i = from; i < word.length; i += maxChunkSize)
HardSplit(word, from, maxChunkSize) ==
    IF from >= StrLen(word) THEN << >>
    ELSE << Slice(word, from, from + maxChunkSize) >>
         \o HardSplit(word, from + maxChunkSize, maxChunkSize)

\* telegram.ts:89-109 without the character split of lines 99-102.
SplitStep_NoHardSplit(st, word, maxChunkSize) ==
    IF ExceedsLimit(st.currentChunk, word, maxChunkSize)
    THEN IF ~IsBlank(st.currentChunk)
         THEN [chunks |-> Append(st.chunks, Trim(st.currentChunk)), currentChunk |-> word]
         ELSE [chunks |-> st.chunks, currentChunk |-> word]
    ELSE [chunks |-> st.chunks, currentChunk |-> st.currentChunk \o word]

\* One iteration of the for-of loop, telegram.ts:89-109, on the loop state
\* st = [chunks, currentChunk].
SplitStep(st, word, maxChunkSize) ==
    IF ExceedsLimit(st.currentChunk, word, maxChunkSize)
    THEN LET saved == IF ~IsBlank(st.currentChunk)
                      THEN [chunks |-> Append(st.chunks, Trim(st.currentChunk)),
                            currentChunk |-> << >>]
                      ELSE st
         IN  IF StrLen(word) > maxChunkSize
             THEN [chunks |-> saved.chunks \o HardSplit(word, 0, maxChunkSize),
                   currentChunk |-> saved.currentChunk]
             ELSE [chunks |-> saved.chunks, currentChunk |-> word]
    ELSE [chunks |-> st.chunks, currentChunk |-> st.currentChunk \o word]

\* telegram.ts:111-116 without the test `if (currentChunk.trim())`.
SplitFinish_AlwaysPushes(st) == Append(st.chunks, Trim(st.currentChunk))

\* telegram.ts:111-116, the remaining content and the return value.
SplitFinish(st) ==
    IF ~IsBlank(st.currentChunk)
    THEN Append(st.chunks, Trim(st.currentChunk))
    ELSE st.chunks

RECURSIVE SplitLoop(_, _, _, _)
SplitLoop(st, words, i, maxChunkSize) ==
    IF i > Len(words) THEN st
    ELSE SplitLoop(SplitStep(st, words[i], maxChunkSize), words, i + 1, maxChunkSize)

splitMessageIntoChunks(message, maxChunkSize) ==
    SplitFinish(SplitLoop([chunks |-> << >>, currentChunk |-> << >>],
                          SplitOnWhitespace(message), 1, maxChunkSize))

\* ---------------------------------------------------------------- transport

\* What the fetch of telegram.ts:46-56 can come back with: it throws, or it
\* yields an HTTP response whose body is JSON or not (response.json() failing
\* is turned into null by the catch of line 56).  An empty description stands
\* for an absent one (both are falsy at line 59).
NotJson == [json |-> FALSE, ok |-> FALSE, description |-> ""]

Responses ==
    { [threw |-> "no", ok |-> TRUE, status |-> 200,
       body |-> [json |-> TRUE, ok |-> TRUE, description |-> ""]],
      [threw |-> "no", ok |-> FALSE, status |-> 429,
       body |-> [json |-> TRUE, ok |-> FALSE,
                 description |-> "Too Many Requests: retry after 5"]],
      [threw |-> "no", ok |-> FALSE, status |-> 502, body |-> NotJson],
      [threw |-> "no", ok |-> TRUE, status |-> 200, body |-> NotJson],
      [threw |-> "Error", ok |-> FALSE, status |-> 0, body |-> NotJson],
      [threw |-> "other", ok |-> FALSE, status |-> 0, body |-> NotJson] }

\* error.message of the Error that fetch rejects with.
FetchErrorMessage == "fetch failed"

\* telegram.ts:56-71, the TelegramSendResult for what fetch came back with.
\* An error text is a record: its template and the values interpolated.
\* telegram.ts:56-71 with the test of line 58 reduced to `!response.ok`.
sendTelegramMessageResult_TrustsStatus(response) ==
    IF response.threw = "Error"
    THEN [success |-> FALSE, error |-> [text |-> FetchErrorMessage]]
    ELSE IF response.threw = "other"
    THEN [success |-> FALSE,
          error |-> [text |-> "Unknown error occurred while sending to Telegram"]]
    ELSE IF ~response.ok
    THEN [success |-> FALSE,
          error |-> IF response.body.json /\ response.body.description # ""
                    THEN [text |-> "Telegram API error: ${description}",
                          description |-> response.body.description]
                    ELSE [text |-> "HTTP ${status}: Telegram API request failed",
                          status |-> response.status]]
    ELSE [success |-> TRUE]

sendTelegramMessageResult(response) ==
    IF response.threw = "Error"
    THEN [success |-> FALSE, error |-> [text |-> FetchErrorMessage]]
    ELSE IF response.threw = "other"
    THEN [success |-> FALSE,
          error |-> [text |-> "Unknown error occurred while sending to Telegram"]]
    ELSE IF ~response.ok \/ ~(response.body.json /\ response.body.ok)
    THEN [success |-> FALSE,
          error |-> IF response.body.json /\ response.body.description # ""
                    THEN [text |-> "Telegram API error: ${description}",
                          description |-> response.body.description]
                    ELSE [text |-> "HTTP ${status}: Telegram API request failed",
                          status |-> response.status]]
    ELSE [success |-> TRUE]

\* ----------------------------------------------------------------- delivery

RECURSIVE Digits(_)
\* The length of `${n}` for a non-negative integer n.
Digits(n) == IF n < 10 THEN 1 ELSE 1 + Digits(n \div 10)

\* telegram.ts:149, `Part ${partNumber}/${totalParts}:`
Header(partNumber, totalParts) ==
    [partNumber |-> partNumber, totalParts |-> totalParts]

\* header.length: "Part " + partNumber + "/" + totalParts + ":"
HeaderLen(header) == 5 + Digits(header.partNumber) + 1 + Digits(header.totalParts) + 1

\* A text handed to sendTelegramMessage: a bare string (the single-message
\* path), or telegram.ts:150, `${header}\n\n${chunk}`.
Bare(s) == [headed |-> FALSE, body |-> s]

ChunkWithHeader(header, chunk) == [headed |-> TRUE, header |-> header, body |-> chunk]

TextLen(text) ==
    IF text.headed THEN HeaderLen(text.header) + 2 + StrLen(text.body)
    ELSE StrLen(text.body)

\* telegram.ts:138, the message fits within the safe limit.
FitsSafeLimit_AddsBuffer(s) ==
    StrLen(s) <= TELEGRAM_MESSAGE_MAX_LENGTH + MESSAGE_SAFETY_BUFFER

FitsSafeLimit_Strict(s) ==
    StrLen(s) < TELEGRAM_MESSAGE_MAX_LENGTH - MESSAGE_SAFETY_BUFFER

FitsSafeLimit(s) ==
    StrLen(s) <= TELEGRAM_MESSAGE_MAX_LENGTH - MESSAGE_SAFETY_BUFFER

\* telegram.ts:133, `!trimmedMessage`
IsEmpty_Unchecked(s) == FALSE

IsEmpty(s) == s = << >>

\* telegram.ts:162, `!sendResult.success`
Failed_Ignored(sendResult) == FALSE

Failed(sendResult) == ~sendResult.success

\* index.ts:82 and 121 without `|| 1`.
ReportedParts_NoDefault(sendResult) ==
    IF "sentParts" \in DOMAIN sendResult THEN sendResult.sentParts ELSE 0

\* index.ts:83 and 121, `sendResult.sentParts || 1`
ReportedParts(sendResult) ==
    IF "sentParts" \in DOMAIN sendResult /\ sendResult.sentParts # 0
    THEN sendResult.sentParts
    ELSE 1

\* telegram.ts:142 without the safety buffer.
chunkSize_NoBuffer == TELEGRAM_MESSAGE_MAX_LENGTH

\* telegram.ts:142
chunkSize == TELEGRAM_MESSAGE_MAX_LENGTH - MESSAGE_SAFETY_BUFFER

VARIABLES
    pc,              \* where sendLongMessageToTelegram stands
    message,         \* its argument
    trimmedMessage,  \* telegram.ts:131
    messageChunks,   \* telegram.ts:143
    chunkIndex,      \* telegram.ts:146
    log,             \* what the delivery did: sends, replies, delays, in order
    result,          \* the TelegramSendResult it returned
    splitPc,         \* where a lone call of splitMessageIntoChunks stands
    splitArgs,       \* its arguments [message, maxChunkSize]
    words,           \* telegram.ts:87
    wordIndex,       \* the position of the for-of loop of line 89
    loopState,       \* [chunks, currentChunk], telegram.ts:83-84
    chunks,          \* the array it returned
    http,            \* the HTTP request being handled and its response
    deliveries,      \* concurrent invocations: the locals of each
    wire             \* ... and the order in which their sends reached the transport

deliveryVars == << pc, message, trimmedMessage, messageChunks, chunkIndex, log, result >>
splitVars == << splitPc, splitArgs, words, wordIndex, loopState, chunks >>
httpVars == << http >>
pairVars == << deliveries, wire >>
vars == << pc, message, trimmedMessage, messageChunks, chunkIndex, log, result,
           splitPc, splitArgs, words, wordIndex, loopState, chunks,
           http, deliveries, wire >>

NoResult == [success |-> FALSE, error |-> [text |-> "(not returned)"]]

SendEvent(text) == [type |-> "send", text |-> text]
ReplyEvent(response, sendResult) ==
    [type |-> "reply", response |-> response, result |-> sendResult]
DelayEvent == [type |-> "delay", ms |-> RATE_LIMIT_DELAY_MS]

\* ------------------------------------------------------------------- inputs

RECURSIVE SumTo(_, _)
SumTo(lens, n) == IF n = 0 THEN 0 ELSE lens[n] + SumTo(lens, n - 1)

\* The string whose runs have the lengths lens, the first one whitespace or not.
MkText(firstWs, lens) ==
    [i \in 1..Len(lens) |->
        [ws |-> (firstWs <=> (i % 2 = 1)), at |-> SumTo(lens, i - 1), len |-> lens[i]]]

TextsOver(maxRuns, runLens) ==
    UNION { { MkText(firstWs, lens) : firstWs \in BOOLEAN, lens \in [1..n -> runLens] }
            : n \in 0..maxRuns }

\* Run lengths around the thresholds of the delivery, and one long enough
\* for a two-digit part count.
DeliveryRunLens ==
    { 1, chunkSize - 1, chunkSize, chunkSize + 1,
      TELEGRAM_MESSAGE_MAX_LENGTH + 1, 9 * chunkSize + 1 }

Messages == TextsOver(MaxRuns, DeliveryRunLens)

SplitTexts == TextsOver(MaxTextRuns, 1..MaxRunLen)

\* The locals of an invocation of sendLongMessageToTelegram not yet made.
NotCalled ==
    [pc |-> "idle", message |-> << >>, trimmedMessage |-> << >>,
     messageChunks |-> << >>, chunkIndex |-> 0, log |-> << >>, result |-> NoResult]

\* --------------------------------------------------------------- operations

Init ==
    /\ pc = "idle"
    /\ message = << >>
    /\ trimmedMessage = << >>
    /\ messageChunks = << >>
    /\ chunkIndex = 0
    /\ log = << >>
    /\ result = NoResult
    /\ splitPc = "idle"
    /\ splitArgs = [message |-> << >>, maxChunkSize |-> 1]
    /\ words = << >>
    /\ wordIndex = 0
    /\ loopState = [chunks |-> << >>, currentChunk |-> << >>]
    /\ chunks = << >>
    /\ http = [state |-> "idle"]
    /\ deliveries = [i \in 1..2 |-> NotCalled]
    /\ wire = << >>

\* telegram.ts:175-178
Succeed_CountsFromZero ==
    /\ result' = [success |-> TRUE, sentParts |-> Len(messageChunks') - 1]
    /\ pc' = "done"

Succeed ==
    /\ result' = [success |-> TRUE, sentParts |-> Len(messageChunks')]
    /\ pc' = "done"

\* The for loop from its test up to its first await or return,
\* telegram.ts:146-160 and 175-178, for the value of chunkIndex in the next
\* state; soFar is the log up to here.
StartIteration(soFar) ==
    IF chunkIndex' < Len(messageChunks')
    THEN LET partNumber == chunkIndex' + 1
             totalParts == Len(messageChunks')
             header == Header(partNumber, totalParts)
             chunkWithHeader == ChunkWithHeader(header, messageChunks'[chunkIndex' + 1])
         IN  IF TextLen(chunkWithHeader) > TELEGRAM_MESSAGE_MAX_LENGTH
             THEN /\ result' = [success |-> FALSE,
                                error |-> [text |-> "Chunk ${partNumber} exceeds Telegram's message length limit",
                                           partNumber |-> partNumber]]
                  /\ pc' = "done"
                  /\ log' = soFar
             ELSE /\ log' = Append(soFar, SendEvent(chunkWithHeader))
                  /\ pc' = "awaitChunk"
                  /\ UNCHANGED result
    ELSE /\ Succeed
         /\ log' = soFar

\* sendLongMessageToTelegram is called: telegram.ts:131-160, up to the first
\* await or return.
Call(m) ==
    /\ pc = "idle"
    /\ message' = m
    /\ trimmedMessage' = Trim(m)
    /\ IF IsEmpty(trimmedMessage')
       THEN /\ result' = [success |-> FALSE, error |-> [text |-> "Message cannot be empty"]]
            /\ pc' = "done"
            /\ UNCHANGED << messageChunks, chunkIndex, log >>
       ELSE IF FitsSafeLimit(trimmedMessage')
       THEN /\ log' = << SendEvent(Bare(trimmedMessage')) >>
            /\ pc' = "awaitSingle"
            /\ UNCHANGED << messageChunks, chunkIndex, result >>
       ELSE /\ messageChunks' = splitMessageIntoChunks(trimmedMessage', chunkSize)
            /\ chunkIndex' = 0
            /\ StartIteration(log)
    /\ UNCHANGED splitVars

\* telegram.ts:139, the single message's send settles and its result is
\* returned as it is.
SingleReply(response) ==
    /\ pc = "awaitSingle"
    /\ log' = Append(log, ReplyEvent(response, sendTelegramMessageResult(response)))
    /\ result' = sendTelegramMessageResult(response)
    /\ pc' = "done"
    /\ UNCHANGED << message, trimmedMessage, messageChunks, chunkIndex >>
    /\ UNCHANGED splitVars

\* telegram.ts:170, another chunk follows this one.
NotLastChunk_Always(index, total) == TRUE

NotLastChunk(index, total) == index < total - 1

\* telegram.ts:165
PartError_ZeroBased(partNumber, totalParts, cause) ==
    [text |-> "Failed to send part ${partNumber}/${totalParts}: ${sendResult.error}",
     partNumber |-> partNumber - 1, totalParts |-> totalParts, cause |-> cause]

\* telegram.ts:163-166 returning `error: sendResult.error`
PartError_Unattributed(partNumber, totalParts, cause) == cause

PartError(partNumber, totalParts, cause) ==
    [text |-> "Failed to send part ${partNumber}/${totalParts}: ${sendResult.error}",
     partNumber |-> partNumber, totalParts |-> totalParts, cause |-> cause]

\* telegram.ts:160-178, a chunk's send settles: the failure is returned, or
\* the delay begins, or (after the last chunk) the loop ends and the
\* delivery succeeds.
ChunkReply(response) ==
    /\ pc = "awaitChunk"
    /\ LET sendResult == sendTelegramMessageResult(response)
           partNumber == chunkIndex + 1
           totalParts == Len(messageChunks)
       IN  IF Failed(sendResult)
           THEN /\ log' = Append(log, ReplyEvent(response, sendResult))
                /\ result' = [success |-> FALSE,
                              error |-> PartError(partNumber, totalParts, sendResult.error)]
                /\ pc' = "done"
                /\ UNCHANGED << messageChunks, chunkIndex >>
           ELSE IF NotLastChunk(chunkIndex, Len(messageChunks))
           THEN /\ log' = Append(Append(log, ReplyEvent(response, sendResult)), DelayEvent)
                /\ pc' = "delay"
                /\ UNCHANGED << messageChunks, chunkIndex, result >>
           ELSE /\ chunkIndex' = chunkIndex + 1
                /\ UNCHANGED messageChunks
                /\ StartIteration(Append(log, ReplyEvent(response, sendResult)))
    /\ UNCHANGED << message, trimmedMessage >>
    /\ UNCHANGED splitVars

\* telegram.ts:171 and 146-160, the timer fires and the next iteration runs
\* up to its send.
DelayElapsed ==
    /\ pc = "delay"
    /\ chunkIndex' = chunkIndex + 1
    /\ UNCHANGED messageChunks
    /\ StartIteration(log)
    /\ UNCHANGED << message, trimmedMessage >>
    /\ UNCHANGED splitVars

\* ------------------------------------------------- the chunker, step by step

\* splitMessageIntoChunks is called on its own: telegram.ts:83-87.
SplitCall(text, maxChunkSize) ==
    /\ splitPc = "idle"
    /\ splitArgs' = [message |-> text, maxChunkSize |-> maxChunkSize]
    /\ words' = SplitOnWhitespace(text)
    /\ wordIndex' = 1
    /\ loopState' = [chunks |-> << >>, currentChunk |-> << >>]
    /\ splitPc' = "loop"
    /\ UNCHANGED chunks
    /\ UNCHANGED deliveryVars

\* One iteration of the loop of telegram.ts:89-109.
SplitIterate ==
    /\ splitPc = "loop"
    /\ wordIndex <= Len(words)
    /\ loopState' = SplitStep(loopState, words[wordIndex], splitArgs.maxChunkSize)
    /\ wordIndex' = wordIndex + 1
    /\ UNCHANGED << splitPc, splitArgs, words, chunks >>
    /\ UNCHANGED deliveryVars

\* telegram.ts:111-116
SplitReturn ==
    /\ splitPc = "loop"
    /\ wordIndex > Len(words)
    /\ chunks' = SplitFinish(loopState)
    /\ splitPc' = "returned"
    /\ UNCHANGED << splitArgs, words, wordIndex, loopState >>
    /\ UNCHANGED deliveryVars

\* ------------------------------------------------- invocations side by side

\* The steps of sendLongMessageToTelegram on the locals d of one invocation,
\* each from one await to the next.

\* telegram.ts:146-160 and 175-178
D_StartIteration(d) ==
    IF d.chunkIndex < Len(d.messageChunks)
    THEN LET partNumber == d.chunkIndex + 1
             totalParts == Len(d.messageChunks)
             header == Header(partNumber, totalParts)
             chunkWithHeader == ChunkWithHeader(header, d.messageChunks[d.chunkIndex + 1])
         IN  IF TextLen(chunkWithHeader) > TELEGRAM_MESSAGE_MAX_LENGTH
             THEN [d EXCEPT !.result = [success |-> FALSE,
                                        error |-> [text |-> "Chunk ${partNumber} exceeds Telegram's message length limit",
                                                   partNumber |-> partNumber]],
                            !.pc = "done"]
             ELSE [d EXCEPT !.log = Append(@, SendEvent(chunkWithHeader)),
                            !.pc = "awaitChunk"]
    ELSE [d EXCEPT !.result = [success |-> TRUE, sentParts |-> Len(d.messageChunks)],
                   !.pc = "done"]

\* telegram.ts:131-160
D_Call(d, m) ==
    LET called == [d EXCEPT !.message = m, !.trimmedMessage = Trim(m)]
    IN  IF IsEmpty(called.trimmedMessage)
        THEN [called EXCEPT !.result = [success |-> FALSE,
                                        error |-> [text |-> "Message cannot be empty"]],
                            !.pc = "done"]
        ELSE IF FitsSafeLimit(called.trimmedMessage)
        THEN [called EXCEPT !.log = << SendEvent(Bare(called.trimmedMessage)) >>,
                            !.pc = "awaitSingle"]
        ELSE D_StartIteration(
                 [called EXCEPT !.messageChunks =
                                    splitMessageIntoChunks(called.trimmedMessage, chunkSize),
                                !.chunkIndex = 0])

\* telegram.ts:139 and 160-178
D_Reply(d, response) ==
    LET sendResult == sendTelegramMessageResult(response)
        replied == [d EXCEPT !.log = Append(@, ReplyEvent(response, sendResult))]
    IN  IF d.pc = "awaitSingle"
        THEN [replied EXCEPT !.result = sendResult, !.pc = "done"]
        ELSE IF Failed(sendResult)
        THEN [replied EXCEPT !.result =
                                 [success |-> FALSE,
                                  error |-> PartError(d.chunkIndex + 1, Len(d.messageChunks),
                                                      sendResult.error)],
                             !.pc = "done"]
        ELSE IF NotLastChunk(d.chunkIndex, Len(d.messageChunks))
        THEN [replied EXCEPT !.log = Append(@, DelayEvent), !.pc = "delay"]
        ELSE D_StartIteration([replied EXCEPT !.chunkIndex = @ + 1])

\* telegram.ts:171 and 146-160
D_Delay(d) == D_StartIteration([d EXCEPT !.chunkIndex = @ + 1])

\* What a step writes: with `chunkIndex` a variable of the module, the
\* counter of every invocation.
Store_SharedIndex(ds, i, new) ==
    [j \in DOMAIN ds |->
        IF j = i THEN new ELSE [ds[j] EXCEPT !.chunkIndex = new.chunkIndex]]

\* What a step writes: the locals of its own invocation, telegram.ts:131-146
\* (const trimmedMessage, const messageChunks, let chunkIndex).
Store(ds, i, new) == [ds EXCEPT ![i] = new]

\* The texts that the step from old to new handed to fetch, in order.
RECURSIVE NewSends(_, _, _)
NewSends(i, old, new) ==
    IF Len(new.log) <= Len(old.log) THEN << >>
    ELSE LET e == new.log[Len(old.log) + 1]
             rest == NewSends(i, [old EXCEPT !.log = Append(@, e)], new)
         IN  IF e.type = "send" THEN << << i, e.text >> >> \o rest ELSE rest

\* A step of invocation i taking its locals to new.
PairStep(i, new) ==
    /\ deliveries' = Store(deliveries, i, new)
    /\ wire' = wire \o NewSends(i, deliveries[i], new)
    /\ UNCHANGED << deliveryVars, splitVars, httpVars >>

PairCall(i, m) ==
    /\ deliveries[i].pc = "idle"
    /\ PairStep(i, D_Call(deliveries[i], m))

PairReply(i, response) ==
    /\ deliveries[i].pc \in {"awaitSingle", "awaitChunk"}
    /\ PairStep(i, D_Reply(deliveries[i], response))

PairDelayElapsed(i) ==
    /\ deliveries[i].pc = "delay"
    /\ PairStep(i, D_Delay(deliveries[i]))

\* A message of k chunks: one word of (k - 1) * chunkSize + 1 characters.
PairMessages ==
    { MkText(FALSE, << (k - 1) * chunkSize + 1 >>) : k \in 1..MaxPairChunks }
    \cup { MkText(TRUE, << 1 >>) }

\* ------------------------------------------------------------ the HTTP layer

\* An optional value (an unset binding, an omitted argument): << >> or << v >>.
Undefined == << >>
Defined(value) == << value >>

\* A key, or the value of the Authorization header: the pieces it is made
\* of, in order; 'Bearer k1' is << "Bearer ", "k1" >>, '' is << >>.
KeyPieces == {"Bearer ", "k1", "k2"}

\* index.ts:97, String.prototype.replace with a string pattern: the first
\* 'Bearer ' of the value is removed, wherever it stands.
RECURSIVE ReplaceBearer(_)
ReplaceBearer(authKey) ==
    IF authKey = << >> THEN << >>
    ELSE IF Head(authKey) = "Bearer " THEN Tail(authKey)
    ELSE << Head(authKey) >> \o ReplaceBearer(Tail(authKey))

\* `!KEY` of index.ts:58 and 97: the binding is unset or the empty string.
NotConfigured(key) == key = Undefined \/ key = Defined(<< >>)

\* index.ts:58
PingAuthorized(BOT_BYPASS_KEY, key) ==
    ~(NotConfigured(BOT_BYPASS_KEY) \/ Defined(key) # BOT_BYPASS_KEY)

\* index.ts:97 without `!AUTH_KEY ||`.
SendAuthorized_NoConfigCheck(AUTH_KEY, authKey) ==
    ~(Defined(ReplaceBearer(authKey)) # AUTH_KEY)

\* index.ts:97
SendAuthorized(AUTH_KEY, authKey) ==
    ~(NotConfigured(AUTH_KEY) \/ Defined(ReplaceBearer(authKey)) # AUTH_KEY)

\* utils.ts:14-26: an optional field is in the object only if it is truthy.
createApiResponse(success, msg, data, error) ==
    [success |-> success]
    @@ (IF msg # Undefined /\ msg[1] # "" THEN [message |-> msg[1]] ELSE << >>)
    @@ (IF data # Undefined THEN [data |-> data[1]] ELSE << >>)
    @@ (IF error # Undefined /\ error[1].text # "" THEN [error |-> error[1]] ELSE << >>)

\* The string b moved to start where the string a ends.
Moved(a, b) == [i \in 1..Len(b) |-> [b[i] EXCEPT !.at = @ + StrLen(a)]]

\* `${a}${b}`: where a ends in the kind of character b starts with, the two
\* runs are one.
StrConcat(a, b) ==
    IF a = << >> \/ b = << >> \/ a[Len(a)].ws # b[1].ws
    THEN a \o Moved(a, b)
    ELSE SubSeq(a, 1, Len(a) - 1)
         \o << [a[Len(a)] EXCEPT !.len = @ + b[1].len] >>
         \o Tail(Moved(a, b))

\* index.ts:105, '\n\n---\nRequest Info:\n'
Separator == MkText(TRUE, << 2, 3, 1, 7, 1, 5, 1 >>)

\* index.ts:105
CombinedMessage(msg, requestInfo) == StrConcat(StrConcat(msg, Separator), requestInfo)

\* utils.ts:72-79: the text starts with 'Request', a space follows, and it ends
\* with the '}' of the headers; what lies between is as long as the request's
\* URL and headers make it: a few hundred characters, or more than a chunk.
RequestInfos == { MkText(FALSE, << 7, 1, n >>) : n \in {300, chunkSize + 1} }

\* The configured key: the binding is unset, empty, or holds a key.
ConfiguredKeys == { Undefined, Defined(<< >>), Defined(<< "k1" >>) }

\* The `key` query parameter of /ping.
QueryKeys == { << >>, << "k1" >>, << "k2" >> }

\* The Authorization header of /send.
AuthorizationHeaders ==
    { << "Bearer ", "k1" >>, << "Bearer ", "k2" >>, << "k1" >>, << "Bearer " >>,
      << "k1", "Bearer " >>, << "Bearer ", "Bearer ", "k1" >> }

\* The `message` of the JSON body of /send.
NotificationMessages ==
    { MkText(FALSE, << 5 >>), MkText(TRUE, << 2, 5, 1 >>), MkText(FALSE, << chunkSize >>) }

\* The request as the handler read it, kept with its response.
Request(route, configured, presented, messageLength) ==
    [route |-> route, configured |-> configured, presented |-> presented,
     messageLength |-> messageLength]

Handling(request) == [state |-> "handling"] @@ request

Responded(request, status, body) ==
    [state |-> "responded", status |-> status, body |-> body] @@ request

\* index.ts:51-73, GET /ping up to its await or its 403.
Ping(BOT_BYPASS_KEY, key, requestInfo) ==
    /\ http.state = "idle"
    /\ LET request == Request("/ping", BOT_BYPASS_KEY, key, StrLen(requestInfo))
       IN  IF ~PingAuthorized(BOT_BYPASS_KEY, key)
           THEN /\ http' = Responded(request, 403,
                               createApiResponse(FALSE, Undefined, Undefined,
                                   Defined([text |-> "Unauthorized: Invalid bot bypass key"])))
                /\ UNCHANGED << deliveryVars, splitVars >>
           ELSE /\ http' = Handling(request)
                /\ Call(requestInfo)
    /\ UNCHANGED pairVars

\* index.ts:92-110, POST /send up to its await or its 403.
Send(AUTH_KEY, authKey, msg, requestInfo) ==
    /\ http.state = "idle"
    /\ LET combinedMessage == CombinedMessage(msg, requestInfo)
           request == Request("/send", AUTH_KEY, authKey, StrLen(combinedMessage))
       IN  IF ~SendAuthorized(AUTH_KEY, authKey)
           THEN /\ http' = Responded(request, 403,
                               createApiResponse(FALSE, Undefined, Undefined,
                                   Defined([text |-> "Unauthorized: Invalid authorization key"])))
                /\ UNCHANGED << deliveryVars, splitVars >>
           ELSE /\ http' = Handling(request)
                /\ Call(combinedMessage)
    /\ UNCHANGED pairVars

\* index.ts:75-85 and 112-124, the delivery returned: the response.
Respond ==
    /\ http.state = "handling"
    /\ pc = "done"
    /\ LET request == Request(http.route, http.configured, http.presented, http.messageLength)
       IN  IF ~result.success
           THEN http' = Responded(request, 502,
                            createApiResponse(FALSE, Undefined, Undefined,
                                              Defined(result.error)))
           ELSE IF http.route = "/ping"
           THEN http' = Responded(request, 200,
                            createApiResponse(TRUE,
                                Defined("Request information sent successfully"),
                                Defined([parts |-> ReportedParts(result)]),
                                Undefined))
           ELSE http' = Responded(request, 200,
                            createApiResponse(TRUE,
                                Defined("Notification sent successfully"),
                                Defined([parts |-> ReportedParts(result),
                                         messageLength |-> http.messageLength]),
                                Undefined))
    /\ UNCHANGED << deliveryVars, splitVars, pairVars >>

\* ----------------------------------------------------------- specifications

\* A step of the operation on its own: no HTTP request, no other invocation.
OnItsOwn(Step) == Step /\ UNCHANGED << httpVars, pairVars >>

Next ==
    \/ pc = "idle" /\ \E m \in Messages : OnItsOwn(Call(m))
    \/ \E response \in Responses : OnItsOwn(SingleReply(response))
    \/ \E response \in Responses : OnItsOwn(ChunkReply(response))
    \/ OnItsOwn(DelayElapsed)

\* One delivery.
Spec == Init /\ [][Next]_vars

NextSplit ==
    \/ splitPc = "idle" /\ \E text \in SplitTexts, maxChunkSize \in 1..MaxChunkSize :
                              OnItsOwn(SplitCall(text, maxChunkSize))
    \/ OnItsOwn(SplitIterate)
    \/ OnItsOwn(SplitReturn)

\* One call of splitMessageIntoChunks, on any text and any maxChunkSize > 0.
SpecSplit == Init /\ [][NextSplit]_vars

\* One operation, a delivery or a lone call of the chunker, whose transport
\* calls and delays eventually return and whose synchronous loop runs on.
NextOne ==
    \/ splitPc = "idle" /\ Next
    \/ pc = "idle" /\ NextSplit

Fairness ==
    /\ WF_vars(\E response \in Responses : OnItsOwn(SingleReply(response)))
    /\ WF_vars(\E response \in Responses : OnItsOwn(ChunkReply(response)))
    /\ WF_vars(OnItsOwn(DelayElapsed))
    /\ WF_vars(OnItsOwn(SplitIterate))
    /\ WF_vars(OnItsOwn(SplitReturn))

SpecTerminates == Init /\ [][NextOne]_vars /\ Fairness

\* One request to the service, /ping or /send, and its delivery.
NextHttp ==
    \/ \E BOT_BYPASS_KEY \in ConfiguredKeys, key \in QueryKeys,
          requestInfo \in RequestInfos :
          Ping(BOT_BYPASS_KEY, key, requestInfo)
    \/ \E AUTH_KEY \in ConfiguredKeys, authKey \in AuthorizationHeaders,
          msg \in NotificationMessages, requestInfo \in RequestInfos :
          Send(AUTH_KEY, authKey, msg, requestInfo)
    \/ \E response \in Responses : OnItsOwn(SingleReply(response))
    \/ \E response \in Responses : OnItsOwn(ChunkReply(response))
    \/ OnItsOwn(DelayElapsed)
    \/ Respond

SpecHttp == Init /\ [][NextHttp]_vars

\* Two invocations of sendLongMessageToTelegram whose awaits interleave.
NextPair ==
    \/ \E i \in 1..2, m \in PairMessages : PairCall(i, m)
    \/ \E i \in 1..2, response \in Responses : PairReply(i, response)
    \/ \E i \in 1..2 : PairDelayElapsed(i)

SpecPair == Init /\ [][NextPair]_vars

\* --------------------------------------------------------------- properties

IsSend(e) == e.type = "send"
IsReply(e) == e.type = "reply"
IsDelay(e) == e.type = "delay"

\* The transport calls made so far, the results that came back, the delays.
Sends == SelectSeq(log, IsSend)
Replies == SelectSeq(log, IsReply)
Delays == SelectSeq(log, IsDelay)

RECURSIVE GapCounts(_, _, _)
\* For each transport call in log[i..], in order, how many events satisfying
\* Test lie between it and the call before it (or the start of the log);
\* last, how many lie after the last call.  c counts those seen since then.
GapCounts(Test(_), i, c) ==
    IF i > Len(log) THEN << c >>
    ELSE IF IsSend(log[i]) THEN << c >> \o GapCounts(Test, i + 1, 0)
    ELSE GapCounts(Test, i + 1, IF Test(log[i]) THEN c + 1 ELSE c)

\* The delivery was called with a message that takes the chunking path.
MultiChunk ==
    /\ pc # "idle"
    /\ StrLen(Trim(message)) > TELEGRAM_MESSAGE_MAX_LENGTH - MESSAGE_SAFETY_BUFFER

\* ... one that takes the single-message path.
SingleMessage ==
    /\ pc # "idle"
    /\ StrLen(Trim(message)) > 0
    /\ StrLen(Trim(message)) <= TELEGRAM_MESSAGE_MAX_LENGTH - MESSAGE_SAFETY_BUFFER

\* The transport refused call k.
FailedAt(k) == k \in 1..Len(Replies) /\ ~Replies[k].result.success

\* C1: in a multi-chunk delivery of n chunks whose transport first fails on
\* call k, exactly k transport calls are made in total, the delivery returns
\* a failure whose error names part k/n and carries the transport's own
\* error, and the calls 1..k-1 were accepted (those chunks stay delivered).
C1_FirstFailureEndsDelivery ==
    LET sends == Sends
        replies == Replies
    IN  \A k \in 1..Len(replies) :
            (MultiChunk /\ ~replies[k].result.success) =>
                /\ pc = "done"
                /\ Len(sends) = k
                /\ Len(replies) = k
                /\ \A j \in 1..(k - 1) : replies[j].result.success
                /\ ~result.success
                /\ DOMAIN result.error = {"text", "partNumber", "totalParts", "cause"}
                /\ result.error.text
                     = "Failed to send part ${partNumber}/${totalParts}: ${sendResult.error}"
                /\ result.error.partNumber = k
                /\ result.error.totalParts = Len(messageChunks)
                /\ result.error.cause = replies[k].result.error

\* A delivery of three chunks whose second call failed.
C1_Witness ==
    /\ MultiChunk
    /\ pc = "done"
    /\ Len(messageChunks) = 3
    /\ FailedAt(2)
    /\ Len(Sends) = 2

\* C2: in every state of a multi-chunk delivery the texts handed to the
\* transport so far are, in order, Part 1/n + chunk 1, Part 2/n + chunk 2, ...
\* (a prefix: none skipped, none sent twice), and a call is issued only once
\* every call before it has returned success.
C2_SendsAreOrderedPrefix ==
    LET sends == Sends
        replies == Replies
        repliesBefore == GapCounts(IsReply, 1, 0)
    IN  MultiChunk =>
            /\ Len(sends) <= Len(messageChunks)
            /\ \A i \in 1..Len(sends) :
                  /\ sends[i].text.headed
                  /\ sends[i].text.header.partNumber = i
                  /\ sends[i].text.header.totalParts = Len(messageChunks)
                  /\ sends[i].text.body = messageChunks[i]
                  /\ repliesBefore[i] = (IF i = 1 THEN 0 ELSE 1)
                  /\ i > 1 => replies[i - 1].result.success

\* Three chunks have been handed over, each after the one before returned.
C2_Witness ==
    /\ MultiChunk
    /\ Len(Sends) = 3
    /\ Len(Replies) = 2
    /\ Sends[3].text.body # Sends[2].text.body

\* C3: a message that is empty or whitespace only is refused with the
\* empty-message error, and no transport call is made.
C3_EmptyMessageRefused ==
    (pc # "idle" /\ IsBlank(message)) =>
        /\ pc = "done"
        /\ result = [success |-> FALSE, error |-> [text |-> "Message cannot be empty"]]
        /\ log = << >>

\* A delivery of a whitespace-only message has returned.
C3_Witness == pc = "done" /\ message # << >> /\ IsBlank(message)

\* The single message was handed to the transport once, bare.
SentOnceWithoutHeader ==
    /\ Len(Sends) = 1
    /\ ~Sends[1].text.headed
    /\ Sends[1].text.body = Trim(message)
    /\ Len(Delays) = 0

\* C4 as stated: a message whose trimmed length is non-zero and at most
\* 4096 - 200 makes exactly one transport call, without a header, and when
\* the transport accepts it the delivery returns success with part count 1.
C4_AsStated ==
    SingleMessage =>
        /\ SentOnceWithoutHeader
        /\ (pc = "done" /\ Replies[1].result.success) =>
              /\ result.success
              /\ "sentParts" \in DOMAIN result
              /\ result.sentParts = 1

\* C4, amended: ... and when the call has returned the delivery returns the
\* transport's own result unchanged; on acceptance that is {success: true},
\* which carries no part count (the HTTP layer reports it as 1 part).
C4_SingleMessageSentOnce ==
    SingleMessage =>
        /\ SentOnceWithoutHeader
        /\ pc \in {"awaitSingle", "done"}
        /\ pc = "done" =>
              /\ Len(Replies) = 1
              /\ result = Replies[1].result
              /\ Replies[1].result.success =>
                    /\ result.success
                    /\ "sentParts" \notin DOMAIN result
                    /\ ReportedParts(result) = 1

\* A message of exactly 4096 - 200 characters was accepted by the transport.
C4_Witness ==
    /\ SingleMessage
    /\ StrLen(Trim(message)) = TELEGRAM_MESSAGE_MAX_LENGTH - MESSAGE_SAFETY_BUFFER
    /\ pc = "done"
    /\ result.success

\* C5: when a multi-chunk delivery returns success, its part count is the
\* number of chunks the chunker produced and the number of transport calls
\* made, and every one of those calls succeeded.
C5_SuccessCountsEveryChunk ==
    LET sends == Sends
        replies == Replies
    IN  (MultiChunk /\ pc = "done" /\ result.success) =>
            /\ "sentParts" \in DOMAIN result
            /\ result.sentParts = Len(splitMessageIntoChunks(Trim(message), chunkSize))
            /\ result.sentParts = Len(sends)
            /\ Len(replies) = Len(sends)
            /\ \A i \in 1..Len(replies) : replies[i].result.success

\* A delivery of more than two chunks returned success.
C5_Witness ==
    /\ MultiChunk
    /\ pc = "done"
    /\ result.success
    /\ Len(Sends) > 2

\* C6: in a multi-chunk delivery exactly one delay lies between every two
\* consecutive transport calls, and none follows the last chunk's send or a
\* failed send: a successful delivery of n chunks has made n - 1 delays, one
\* that failed at chunk k has made k - 1.
C6_OneDelayBetweenSends ==
    LET sends == Sends
        replies == Replies
        delays == Delays
        delaysBefore == GapCounts(IsDelay, 1, 0)
    IN  MultiChunk =>
            /\ \A i \in 1..Len(sends) : delaysBefore[i] = (IF i = 1 THEN 0 ELSE 1)
            /\ \A d \in 1..Len(delays) : delays[d].ms = RATE_LIMIT_DELAY_MS
            /\ pc = "done" =>
                  /\ delaysBefore[Len(sends) + 1] = 0
                  /\ result.success => Len(delays) = Len(messageChunks) - 1
                  /\ \A k \in 1..Len(replies) :
                        ~replies[k].result.success => Len(delays) = k - 1

\* A delivery of three chunks succeeded after two delays.
C6_Witness ==
    /\ MultiChunk
    /\ pc = "done"
    /\ result.success
    /\ Len(messageChunks) = 3
    /\ Len(Delays) = 2

\* ... and one failed at its third chunk after two delays.
C6_WitnessFailed ==
    /\ MultiChunk
    /\ pc = "done"
    /\ FailedAt(3)
    /\ Len(Delays) = 2

\* C7: if chunk k with its header is longer than 4096 the delivery aborts
\* with a failure naming chunk k, after exactly k - 1 transport calls.
C7_OversizeChunkAborts ==
    \A k \in 1..Len(messageChunks) :
        (/\ MultiChunk
         /\ chunkIndex + 1 >= k
         /\ HeaderLen(Header(k, Len(messageChunks))) + 2 + StrLen(messageChunks[k])
               > TELEGRAM_MESSAGE_MAX_LENGTH
         /\ \A j \in 1..(k - 1) : Replies[j].result.success)
        => /\ pc = "done"
           /\ ~result.success
           /\ result.error.text = "Chunk ${partNumber} exceeds Telegram's message length limit"
           /\ result.error.partNumber = k
           /\ Len(Sends) = k - 1

\* The state C7 is about: a chunk that is too long once its header is added.
C7_OversizeChunkExists ==
    \E k \in 1..Len(messageChunks) :
        HeaderLen(Header(k, Len(messageChunks))) + 2 + StrLen(messageChunks[k])
            > TELEGRAM_MESSAGE_MAX_LENGTH

\* C8: every text handed to the transport, on the single-message path and on
\* the multi-chunk path, is at most 4096 characters long, header included.
C8_SentTextsWithinLimit ==
    LET sends == Sends
    IN  \A i \in 1..Len(sends) :
            (IF sends[i].text.headed
             THEN 5 + Digits(sends[i].text.header.partNumber) + 1
                    + Digits(sends[i].text.header.totalParts) + 1 + 2
                    + StrLen(sends[i].text.body)
             ELSE StrLen(sends[i].text.body)) <= TELEGRAM_MESSAGE_MAX_LENGTH

\* A full-size chunk was sent under a two-digit header: longer than the
\* chunk size, within the limit.
C8_Witness ==
    \E i \in 1..Len(Sends) :
        /\ Sends[i].text.headed
        /\ Sends[i].text.header.partNumber >= 10
        /\ StrLen(Sends[i].text.body) = chunkSize
        /\ TextLen(Sends[i].text) = chunkSize + 13

\* C9: every chunk splitMessageIntoChunks returns is at most maxChunkSize
\* characters long.
C9_ChunksWithinMaxChunkSize ==
    /\ \A i \in 1..Len(loopState.chunks) :
          StrLen(loopState.chunks[i]) <= splitArgs.maxChunkSize
    /\ splitPc = "returned" =>
          /\ chunks = splitMessageIntoChunks(splitArgs.message, splitArgs.maxChunkSize)
          /\ \A i \in 1..Len(chunks) : StrLen(chunks[i]) <= splitArgs.maxChunkSize

\* A call returned the chunk of a buffer that was saved when a word longer
\* than maxChunkSize arrived, and then the slices of that word, the first of
\* them maxChunkSize long.
C9_Witness ==
    /\ splitPc = "returned"
    /\ Len(chunks) >= 3
    /\ \E i \in 1..Len(chunks) : StrLen(chunks[i]) = splitArgs.maxChunkSize
    /\ \E i \in 2..Len(splitArgs.message) :
          ~splitArgs.message[i].ws /\ splitArgs.message[i].len > splitArgs.maxChunkSize

\* C10: every chunk splitMessageIntoChunks returns is non-empty after
\* trimming: none is empty or whitespace only.
C10_NoBlankChunk ==
    splitPc = "returned" => \A i \in 1..Len(chunks) : ~IsBlank(chunks[i])


RECURSIVE CharsOf(_)
\* The characters of a string, one by one: the index each has in the text
\* it comes from, and its class.
CharsOf(s) ==
    IF s = << >> THEN << >>
    ELSE [i \in 1..Head(s).len |-> [at |-> Head(s).at + i - 1, ws |-> Head(s).ws]]
         \o CharsOf(Tail(s))

RECURSIVE Joined(_)
\* chunks.join("")
Joined(strings) ==
    IF strings = << >> THEN << >> ELSE Head(strings) \o Joined(Tail(strings))

IsNonWhitespace(c) == ~c.ws

\* C11: for a non-empty text the chunks, concatenated in order, hold exactly
\* the non-whitespace characters of the text, in the same order, none dropped
\* and none duplicated, and every chunk is a contiguous piece of the text
\* (the whitespace inside a chunk is the text's).
C11_ChunksReconstructText ==
    (splitPc = "returned" /\ splitArgs.message # << >>) =>
        LET text == CharsOf(splitArgs.message)
        IN  /\ SelectSeq(CharsOf(Joined(chunks)), IsNonWhitespace)
                 = SelectSeq(text, IsNonWhitespace)
            /\ \A i \in 1..Len(chunks) :
                  LET piece == CharsOf(chunks[i])
                  IN  \A j \in 1..Len(piece) :
                         /\ piece[1].at + j <= Len(text)
                         /\ piece[j] = text[piece[1].at + j]

\* A text came back as several chunks, one of them with whitespace inside,
\* and with whitespace dropped at a chunk boundary.
C11_Witness ==
    /\ splitPc = "returned"
    /\ Len(chunks) >= 2
    /\ \E i \in 1..Len(chunks) : Len(chunks[i]) >= 3
    /\ StrLen(Joined(chunks)) < StrLen(splitArgs.message)


\* The k-th slice (from 0) of the word w cut every size characters.
SliceOf(w, k, size) ==
    << [ws |-> FALSE, at |-> w.at + k * size,
        len |-> IF w.len - k * size < size THEN w.len - k * size ELSE size] >>

C13_AsStated ==
    LET replies == Replies
    IN  \A k \in 1..Len(replies) :
            ~replies[k].result.success =>
                /\ pc = "done"
                /\ ~result.success
                /\ "partNumber" \in DOMAIN result.error
                /\ result.error.partNumber = k

\* C13, amended: on the multi-chunk path every transport failure returned
\* names the position k and the count n of the chunk that failed; on the
\* single-message path the transport's failure is returned as it is, with
\* no position.
C13_FailureNamesPartWhenChunked ==
    LET replies == Replies
    IN  \A k \in 1..Len(replies) :
            ~replies[k].result.success =>
                /\ pc = "done"
                /\ ~result.success
                /\ MultiChunk =>
                      /\ "partNumber" \in DOMAIN result.error
                      /\ result.error.partNumber = k
                      /\ result.error.totalParts = Len(messageChunks)
                      /\ Sends[k].text.header.partNumber = k
                /\ SingleMessage =>
                      /\ result = replies[k].result
                      /\ "partNumber" \notin DOMAIN result.error

\* The last chunk of a delivery was refused with an HTTP status and no
\* description.
C13_Witness ==
    /\ MultiChunk
    /\ pc = "done"
    /\ Len(Replies) = Len(messageChunks)
    /\ FailedAt(Len(messageChunks))
    /\ "status" \in DOMAIN result.error.cause


\* The transport call ended in a fault: fetch threw (a network error), the
\* HTTP status was not OK, or the body was not JSON.
Fault(response) == response.threw # "no" \/ ~response.ok \/ ~response.body.json

\* C14: a network error, a non-OK HTTP status or a malformed response on any
\* transport call comes back as a structured failure {success: false, error},
\* the delivery returns a structured failure and ends there; it is never
\* left without a result.
C14_FaultsBecomeFailureResults ==
    LET replies == Replies
    IN  /\ pc \in {"idle", "awaitSingle", "awaitChunk", "delay", "done"}
        /\ \A k \in 1..Len(replies) :
              Fault(replies[k].response) =>
                  /\ DOMAIN replies[k].result = {"success", "error"}
                  /\ ~replies[k].result.success
                  /\ "text" \in DOMAIN replies[k].result.error
                  /\ k = Len(replies)
                  /\ pc = "done"
                  /\ DOMAIN result = {"success", "error"}
                  /\ ~result.success
                  /\ "text" \in DOMAIN result.error
                  /\ result # NoResult

\* The second call of a delivery got an HTTP 200 whose body was not JSON.
C14_Witness ==
    /\ MultiChunk
    /\ pc = "done"
    /\ Len(Replies) = 2
    /\ Replies[2].response.threw = "no"
    /\ Replies[2].response.ok
    /\ ~Replies[2].response.body.json


\* C19: whenever the chunking path is taken the chunker returns at least two
\* chunks, so the chunk list is never empty, a header is sent exactly on
\* that path, and no 'Part 1/1:' is ever transmitted.
C19_HeaderOnlyWhenSeveralParts ==
    LET sends == Sends
    IN  /\ MultiChunk => Len(messageChunks) >= 2
        /\ \A i \in 1..Len(sends) :
              /\ sends[i].text.headed <=> MultiChunk
              /\ sends[i].text.headed => sends[i].text.header.totalParts > 1

\* A message one character over the safe limit was split in two and its
\* first part sent.
C19_Witness ==
    /\ MultiChunk
    /\ StrLen(Trim(message)) = TELEGRAM_MESSAGE_MAX_LENGTH - MESSAGE_SAFETY_BUFFER + 1
    /\ Len(messageChunks) = 2
    /\ Len(Sends) >= 1

\* C20: with the constants of the code no chunk plus its header and blank
\* line is longer than 4096, and no delivery ends with the
\* chunk-exceeds-limit failure.
C20_ChunkTooLargeUnreachable ==
    /\ \A k \in 1..Len(messageChunks) :
          5 + Digits(k) + 1 + Digits(Len(messageChunks)) + 1 + 2
            + StrLen(messageChunks[k]) <= TELEGRAM_MESSAGE_MAX_LENGTH
    /\ ~C7_OversizeChunkExists
    /\ (pc = "done" /\ ~result.success) =>
          result.error.text # "Chunk ${partNumber} exceeds Telegram's message length limit"

\* A delivery of ten or more chunks succeeded, a full-size chunk among those
\* with a two-digit part number.
C20_Witness ==
    /\ MultiChunk
    /\ pc = "done"
    /\ result.success
    /\ \E k \in 10..Len(messageChunks) :
          StrLen(messageChunks[k]) = TELEGRAM_MESSAGE_MAX_LENGTH - MESSAGE_SAFETY_BUFFER


\* The calls and delays a delivery may make: none for a blank message, one
\* call for a single message, n calls and n - 1 delays for n chunks.
WithinCallBudget ==
    /\ IsBlank(message) => (Len(Sends) = 0 /\ Len(Delays) = 0)
    /\ SingleMessage => (Len(Sends) <= 1 /\ Len(Delays) = 0)
    /\ MultiChunk => /\ Len(Sends) <= Len(messageChunks)
                     /\ Len(Delays) <= Len(messageChunks) - 1

\* C18: a started delivery eventually returns, as a success or as a failure,
\* after at most n transport calls and n - 1 delays, and nothing happens
\* after it has returned; a call of splitMessageIntoChunks eventually
\* returns.
C18_DeliveryTerminates ==
    /\ [](pc # "idle" => <>(pc = "done"))
    /\ [](splitPc = "loop" => <>(splitPc = "returned"))
    /\ [](WithinCallBudget)
    /\ [](pc = "done" => (result # NoResult /\ result.success \in BOOLEAN))
    /\ [][pc = "done" => (pc' = "done" /\ result' = result /\ log' = log)]_vars
    /\ [][splitPc = "returned" => (splitPc' = "returned" /\ chunks' = chunks)]_vars

\* A delivery of ten or more chunks has returned success.
C18_Witness ==
    /\ pc = "done"
    /\ result.success
    /\ Len(messageChunks) >= 10
    /\ Len(Sends) = Len(messageChunks)
    /\ Len(Delays) = Len(messageChunks) - 1


\* The key the request presented, as the handler compares it.
PresentedKey ==
    IF http.route = "/send" THEN ReplaceBearer(http.presented) ELSE http.presented

\* The request's key does not match the configured one, or none is configured.
Unauthorized ==
    \/ http.configured = Undefined
    \/ http.configured = Defined(<< >>)
    \/ http.configured # Defined(PresentedKey)

\* C15: a /send request whose key does not match AUTH_KEY, a /ping request
\* whose key does not match BOT_BYPASS_KEY, and any request while its key is
\* not configured, is answered 403 before the delivery is invoked: nothing
\* is sent to the transport.
C15_UnauthorizedRefusedBeforeCore ==
    (http.state # "idle" /\ Unauthorized) =>
        /\ http.state = "responded"
        /\ http.status = 403
        /\ ~http.body.success
        /\ pc = "idle"
        /\ log = << >>

\* A /send request with a well-formed header carrying the wrong key.
C15_Witness ==
    /\ http.state = "responded"
    /\ http.route = "/send"
    /\ http.configured = Defined(<< "k1" >>)
    /\ http.presented = << "Bearer ", "k2" >>
    /\ http.status = 403

\* A /ping request while BOT_BYPASS_KEY is not set.
C15_WitnessNotConfigured ==
    /\ http.state = "responded"
    /\ http.route = "/ping"
    /\ http.configured = Undefined
    /\ http.status = 403

\* C16: an authorized request is answered 502 with the delivery's error text
\* exactly when the delivery failed, and 200 with data.parts the number of
\* messages sent to the transport (1 for an unchunked message) exactly when
\* it succeeded; it is never answered 403.
C16_StatusFollowsDeliveryResult ==
    (http.state = "responded" /\ ~Unauthorized) =>
        /\ pc = "done"
        /\ http.status \in {200, 502}
        /\ http.status = 502 <=> ~result.success
        /\ http.status = 200 <=> result.success
        /\ http.status = 502 =>
              /\ ~http.body.success
              /\ "error" \in DOMAIN http.body
              /\ http.body.error = result.error
        /\ http.status = 200 =>
              /\ http.body.success
              /\ "data" \in DOMAIN http.body
              /\ http.body.data.parts = Len(Sends)
              /\ SingleMessage => http.body.data.parts = 1

\* An authorized /send whose message went out unchunked was answered 200.
C16_Witness ==
    /\ http.state = "responded"
    /\ http.route = "/send"
    /\ ~Unauthorized
    /\ SingleMessage
    /\ http.status = 200
    /\ http.body.data.parts = 1

\* An authorized /ping whose second part the transport refused was answered 502.
C16_WitnessFailed ==
    /\ http.state = "responded"
    /\ http.route = "/ping"
    /\ ~Unauthorized
    /\ MultiChunk
    /\ Len(Sends) = 2
    /\ http.status = 502
    /\ http.body.error.partNumber = 2


\* The locals of the one delivery of Spec, as a record.
DeliveryLocals ==
    [pc |-> pc, message |-> message, trimmedMessage |-> trimmedMessage,
     messageChunks |-> messageChunks, chunkIndex |-> chunkIndex, log |-> log,
     result |-> result]

\* The steps on a record of locals are the steps of the one delivery.
StepsAgree ==
    [][ LET d == DeliveryLocals
        IN  DeliveryLocals' =
                IF pc = "idle" THEN D_Call(d, message')
                ELSE IF pc = "delay" THEN D_Delay(d)
                ELSE D_Reply(d, log'[Len(log) + 1].response) ]_deliveryVars

\* The responses an invocation received, in order.
ResponsesOf(d) ==
    LET replies == SelectSeq(d.log, IsReply)
    IN  [k \in 1..Len(replies) |-> replies[k].response]

\* The texts an invocation handed to the transport, in order.
SendsOf(d) ==
    LET sends == SelectSeq(d.log, IsSend)
    IN  [k \in 1..Len(sends) |-> sends[k].text]

\* The invocation running alone from d on these responses: every delay
\* elapses, every response is taken by the send that awaits it.
RECURSIVE RunAlone(_, _)
RunAlone(d, responses) ==
    IF d.pc = "delay" THEN RunAlone(D_Delay(d), responses)
    ELSE IF responses = << >> \/ d.pc = "done" THEN d
    ELSE RunAlone(D_Reply(d, Head(responses)), Tail(responses))

Alone(m, responses) == RunAlone(D_Call(NotCalled, m), responses)

\* The sends of invocation i as they reached the transport among the other's.
WireOf(i) ==
    LET mine == SelectSeq(wire, LAMBDA w : w[1] = i)
    IN  [k \in 1..Len(mine) |-> mine[k][2]]

\* C17: of two deliveries whose transport calls and delays interleave in any
\* order, each makes the transport calls and reaches the result it would
\* make and reach alone on the responses it received: the locals of each are
\* those of the lone run (or one elapsed delay behind them), and its calls
\* reached the transport in its own order.
C17_ConcurrentDeliveriesIndependent ==
    \A i \in 1..2 :
        LET d == deliveries[i]
            alone == Alone(d.message, ResponsesOf(d))
        IN  d.pc # "idle" =>
                /\ d = alone \/ (d.pc = "delay" /\ D_Delay(d) = alone)
                /\ SendsOf(d) = SendsOf(IF d.pc = "delay" THEN d ELSE alone)
                /\ d.pc = "done" => d.result = alone.result
                /\ WireOf(i) = SendsOf(d)

\* Both deliveries succeeded with three parts each, and parts of the second
\* reached the transport between parts of the first, and the other way round.
C17_Witness ==
    /\ \A i \in 1..2 : /\ deliveries[i].pc = "done"
                       /\ deliveries[i].result.success
                       /\ Len(deliveries[i].messageChunks) = 3
    /\ \E a, b, c, e \in 1..Len(wire) :
          /\ a < b /\ b < c /\ c < e
          /\ wire[a][1] = 1 /\ wire[b][1] = 2 /\ wire[c][1] = 1 /\ wire[e][1] = 2


\* C21: splitMessageIntoChunks on the empty text returns the empty sequence:
\* tokenizing yields the single empty token, the loop takes it without
\* emitting a chunk, and nothing remains to be pushed at the end.
C21_EmptyTextYieldsNoChunk ==
    /\ splitMessageIntoChunks(<< >>, splitArgs.maxChunkSize) = << >>
    /\ (splitPc # "idle" /\ splitArgs.message = << >>) =>
          /\ words = << << >> >>
          /\ loopState.chunks = << >>
          /\ loopState.currentChunk = << >>
          /\ splitPc = "returned" => chunks = << >>

\* A call on the empty text iterated over its one token and returned.
C21_Witness ==
    /\ splitPc = "returned"
    /\ splitArgs.message = << >>
    /\ Len(words) = 1
    /\ wordIndex = 2

====
